---- MODULE Spec2Model ----
(***************************************************************************)
(* The optical Manchester receiver of the ScopeVisualizer component        *)
(* (src/unnamed/part_003, lines 225-537) and the parts of App.tsx that     *)
(* feed it: the per-frame signal pipeline (smoothing, baseline removal,    *)
(* Schmitt trigger, run-length classifier, line decoder), the camera       *)
(* effect that resets it and the requestAnimationFrame loop that drives    *)
(* it, the camera list with its selected index, and the console log that  *)
(* App captures.                                                           *)
(*                                                                         *)
(* Numbers.  The code computes in IEEE doubles.  The model holds every     *)
(* sample, baseline and amplified value in fixed point, in hundredths, and *)
(* rounds each division to the nearest hundredth.  Gain and threshold are  *)
(* the integers the sliders produce.                                       *)
(*                                                                         *)
(* null.  A nullable ref is a sequence: <<>> is null, <<v>> is the value.  *)
(* animationFrameRef is 0 for null: the code only tests it for truthiness  *)
(* and request ids are positive.                                           *)
(***************************************************************************)
EXTENDS Integers, Sequences, FiniteSets, TLC

VARIABLES
  \* ScopeVisualizer refs
  baselineRef, digitalStateRef, rawHistoryRef, signalBufferRef,
  digitalBufferRef, runLengthRef, bitAccumulatorRef, lastDigitalStateRef,
  pendingShortRef, animationFrameRef,
  \* ScopeVisualizer props, held as state by App
  deviceId, gain, threshold,
  \* App state
  terminalContent, devices, currentDeviceIndex, logs,
  \* whether getDevices of App is still awaiting the browser
  enumerating,
  \* the browser: callbacks requestAnimationFrame holds, the stream attached
  \* to the video element, getUserMedia calls not yet settled
  rafCallbacks, srcObject, streamRequests,
  \* what the last run of process() did: the run length it classified, the
  \* bits it handed to processBit, the strings it handed to onCharDecoded,
  \* and the pending slot as it found it
  lastTick,
  \* test bench: inputs still to be played, and what the bench compares with
  tape, bench

dspVars == <<baselineRef, digitalStateRef, rawHistoryRef, signalBufferRef,
             digitalBufferRef, runLengthRef, bitAccumulatorRef,
             lastDigitalStateRef, pendingShortRef>>
appVars == <<deviceId, gain, threshold, terminalContent>>
envVars == <<rafCallbacks, srcObject, streamRequests>>
hostVars == <<devices, currentDeviceIndex, logs, enumerating>>
benchVars == <<tape, bench>>
vars == <<dspVars, animationFrameRef, appVars, hostVars, envVars, lastTick,
          benchVars>>

----------------------------------------------------------------------------
\* Bounds of the model

\* ready frames processed in one behaviour of Spec, and before the last
\* device switch in one behaviour of ReplaySpec
MaxTicks == 4
\* getUserMedia calls in flight at once; one more in CameraSpec
MaxRequests == 1
\* ticks one run may last in DecoderSpec
MaxRun == 5
\* bytes of a message in RoundTripSpec
MaxBytes == 2
\* console calls made in one behaviour of LogSpec
MaxLogs == 2
\* camera switches in one behaviour of CameraSpec
MaxSwitches == 3

\* the devices App may select; "undefined" is the prop before enumeration
Undefined == "undefined"
Devices == {"cam1", "cam2", "cam3"}
\* what enumerateDevices may report: no camera, one, or two
DeviceLists == {<<>>, <<"cam1">>, <<"cam1", "cam2">>}
\* the same, and three cameras
CameraLists == DeviceLists \cup {<<"cam1", "cam2", "cam3">>}
\* An enumeration is the list reported and the findIndex of its back camera,
\* -1 when no label names one.
Enumerations ==
  {e \in [list : DeviceLists, back : -1..1] : e.back < Len(e.list)}
CameraEnumerations ==
  {e \in [list : CameraLists, back : -1..2] : e.back < Len(e.list)}

\* rawCurrent of a frame: mean of blue - green over the window, in hundredths
RawSet == {-600, 600}
\* slider positions of Controls
GainSet == {300, 1000}
ThresholdSet == {15, 50}

----------------------------------------------------------------------------
\* Program constants

BUFFER_SIZE == 300

None == <<>>
Some(v) == <<v>>

\* n as a fixed-point value
Hundredths(n) == n * 100

\* a / d rounded to the nearest integer
RoundDiv(a, d) == (2 * a + d) \div (2 * d)

RECURSIVE SumSeq(_)
SumSeq(s) == IF s = <<>> THEN 0 ELSE Head(s) + SumSeq(Tail(s))

Last(s) == s[Len(s)]

\* a bounded push that shifts twice above the capacity
PushBoundedShiftTwice(buf, x, cap) ==
  LET b == Append(buf, x) IN IF Len(b) > cap THEN Tail(Tail(b)) ELSE b

\* array.push(x) followed by shift() above the capacity
PushBounded(buf, x, cap) ==
  LET b == Append(buf, x) IN IF Len(b) > cap THEN Tail(b) ELSE b

----------------------------------------------------------------------------
\* 2. 3-Frame Smoothing

\* a smoother that keeps four samples
SmoothHistoryFour(hist, rawCurrent) == PushBounded(hist, rawCurrent, 4)

SmoothHistory(hist, rawCurrent) == PushBounded(hist, rawCurrent, 3)

RawSmoothed(hist) == RoundDiv(SumSeq(hist), Len(hist))

\* a filter that takes two steps on one sample
BaselineTwice(prev, rawSmoothed) ==
  IF prev = None THEN rawSmoothed
  ELSE RoundDiv(RoundDiv(prev[1] * 98 + rawSmoothed * 2, 100) * 98
                  + rawSmoothed * 2, 100)

\* a filter that starts from 0 instead of the first sample
BaselineFromZero(prev, rawSmoothed) ==
  RoundDiv((IF prev = None THEN 0 ELSE prev[1]) * 98 + rawSmoothed * 2, 100)

\* a filter whose two weights do not add up to 1
BaselineLeaky(prev, rawSmoothed) ==
  IF prev = None THEN rawSmoothed
  ELSE RoundDiv(prev[1] * 98 + rawSmoothed * 1, 100)

\* 3. IIR Filter (AC Coupling): baseline * 0.98 + rawSmoothed * 0.02
Baseline(prev, rawSmoothed) ==
  IF prev = None THEN rawSmoothed
  ELSE RoundDiv(prev[1] * 98 + rawSmoothed * 2, 100)

AcSignal(rawSmoothed, baseline, g) == (rawSmoothed - baseline) * g

\* a comparator without the dead zone
SchmittNoHysteresis(state, acSignal, t) ==
  IF acSignal > Hundredths(t) THEN 1 ELSE 0

\* 4. Schmitt Trigger
Schmitt(state, acSignal, t) ==
  IF acSignal > Hundredths(t) THEN 1
  ELSE IF acSignal < -Hundredths(t) THEN 0
  ELSE state

----------------------------------------------------------------------------
\* 5. Manchester Decoder Logic

\* String.fromCharCode for the printable range 32..126.  A TLA+ string cannot
\* hold the grave accent (code 96), which is written U+0060.
Ascii ==
  << " ", "!", "\"", "#", "$", "%", "&", "'", "(", ")", "*", "+", ",", "-",
     ".", "/", "0", "1", "2", "3", "4", "5", "6", "7", "8", "9", ":", ";",
     "<", "=", ">", "?", "@", "A", "B", "C", "D", "E", "F", "G", "H", "I",
     "J", "K", "L", "M", "N", "O", "P", "Q", "R", "S", "T", "U", "V", "W",
     "X", "Y", "Z", "[", "\\", "]", "^", "_", "U+0060", "a", "b", "c", "d", "e",
     "f", "g", "h", "i", "j", "k", "l", "m", "n", "o", "p", "q", "r", "s",
     "t", "u", "v", "w", "x", "y", "z", "{", "|", "}", "~" >>

FromCharCode(n) == Ascii[n - 31]

LockText == "\n[LOCK]"
EndText == "\n[END]\n"

\* parseInt(byteStr, 2) of a string of "0" and "1"
RECURSIVE ParseBinary(_)
ParseBinary(s) ==
  IF s = <<>> THEN 0
  ELSE 2 * ParseBinary(SubSeq(s, 1, Len(s) - 1))
       + (IF Last(s) = "1" THEN 1 ELSE 0)

LockWord == <<"1", "1", "1", "1", "0", "0", "0", "0">>
EndWord == <<"0", "0", "0", "0", "1", "1", "1", "1">>

\* processBit without the sync-word test
ProcessBitNoLock(acc, bit) ==
  LET byteStr == Append(acc, bit) IN
  IF Len(byteStr) >= 8 THEN
    IF byteStr = EndWord THEN [acc |-> <<>>, decoded |-> <<EndText>>]
    ELSE LET charCode == ParseBinary(byteStr) IN
         IF charCode >= 32 /\ charCode <= 126
         THEN [acc |-> <<>>, decoded |-> <<FromCharCode(charCode)>>]
         ELSE [acc |-> <<>>, decoded |-> <<>>]
  ELSE [acc |-> byteStr, decoded |-> <<>>]

\* processBit that keeps the end word in the accumulator
ProcessBitEndKept(acc, bit) ==
  LET byteStr == Append(acc, bit) IN
  IF Len(byteStr) >= 8 THEN
    IF byteStr = LockWord THEN [acc |-> <<>>, decoded |-> <<LockText>>]
    ELSE IF byteStr = EndWord THEN [acc |-> byteStr, decoded |-> <<EndText>>]
    ELSE LET charCode == ParseBinary(byteStr) IN
         IF charCode >= 32 /\ charCode <= 126
         THEN [acc |-> <<>>, decoded |-> <<FromCharCode(charCode)>>]
         ELSE [acc |-> <<>>, decoded |-> <<>>]
  ELSE [acc |-> byteStr, decoded |-> <<>>]

\* processBit with the printable range open at both ends
ProcessBitOpenRange(acc, bit) ==
  LET byteStr == Append(acc, bit) IN
  IF Len(byteStr) >= 8 THEN
    IF byteStr = LockWord THEN [acc |-> <<>>, decoded |-> <<LockText>>]
    ELSE IF byteStr = EndWord THEN [acc |-> <<>>, decoded |-> <<EndText>>]
    ELSE LET charCode == ParseBinary(byteStr) IN
         IF charCode > 32 /\ charCode < 126
         THEN [acc |-> <<>>, decoded |-> <<FromCharCode(charCode)>>]
         ELSE [acc |-> <<>>, decoded |-> <<>>]
  ELSE [acc |-> byteStr, decoded |-> <<>>]

\* processBit that keeps a discarded byte in the accumulator
ProcessBitDiscardKept(acc, bit) ==
  LET byteStr == Append(acc, bit) IN
  IF Len(byteStr) >= 8 THEN
    IF byteStr = LockWord THEN [acc |-> <<>>, decoded |-> <<LockText>>]
    ELSE IF byteStr = EndWord THEN [acc |-> <<>>, decoded |-> <<EndText>>]
    ELSE LET charCode == ParseBinary(byteStr) IN
         IF charCode >= 32 /\ charCode <= 126
         THEN [acc |-> <<>>, decoded |-> <<FromCharCode(charCode)>>]
         ELSE [acc |-> byteStr, decoded |-> <<>>]
  ELSE [acc |-> byteStr, decoded |-> <<>>]

\* processBit: the accumulator after the bit, and the onCharDecoded calls
\* a decoder that takes a unit to be complete after 7 bits
ProcessBitEarly(acc, bit) ==
  LET byteStr == Append(acc, bit) IN
  IF Len(byteStr) >= 7 THEN
    IF byteStr = LockWord THEN [acc |-> <<>>, decoded |-> <<LockText>>]
    ELSE IF byteStr = EndWord THEN [acc |-> <<>>, decoded |-> <<EndText>>]
    ELSE LET charCode == ParseBinary(byteStr) IN
         IF charCode >= 32 /\ charCode <= 126
         THEN [acc |-> <<>>, decoded |-> <<FromCharCode(charCode)>>]
         ELSE [acc |-> <<>>, decoded |-> <<>>]
  ELSE [acc |-> byteStr, decoded |-> <<>>]

ProcessBit(acc, bit) ==
  LET byteStr == Append(acc, bit) IN
  IF Len(byteStr) >= 8 THEN
    IF byteStr = LockWord THEN [acc |-> <<>>, decoded |-> <<LockText>>]
    ELSE IF byteStr = EndWord THEN [acc |-> <<>>, decoded |-> <<EndText>>]
    ELSE LET charCode == ParseBinary(byteStr) IN
         IF charCode >= 32 /\ charCode <= 126
         THEN [acc |-> <<>>, decoded |-> <<FromCharCode(charCode)>>]
         ELSE [acc |-> <<>>, decoded |-> <<>>]
  ELSE [acc |-> byteStr, decoded |-> <<>>]

\* the cutoffs one frame off
IsShortStrict(pulseLen) == pulseLen < 3
IsLongStrict(pulseLen) == pulseLen > 4

IsShort(pulseLen) == pulseLen <= 3
IsLong(pulseLen) == pulseLen >= 4

\* the bit a completed long run hands to processBit
LongBit(currentState) == IF currentState = 0 THEN "0" ELSE "1"

\* the pair rule with its two cases swapped
PairBitsSwapped(pending, currentState) ==
  IF pending = 0 /\ currentState = 1 THEN <<"1">>
  ELSE IF pending = 1 /\ currentState = 0 THEN <<"0">>
  ELSE <<>>

\* the bits a completed short run hands to processBit, given the pending level
PairBits(pending, currentState) ==
  IF pending = 0 /\ currentState = 1 THEN <<"0">>
  ELSE IF pending = 1 /\ currentState = 0 THEN <<"1">>
  ELSE <<>>

\* One pass of the decoder over the digitizer's output.  d holds runLength,
\* bitAccumulator, lastDigitalState and pendingShort; the result holds them
\* after the pass, with pulseLen, bits and decoded describing the pass.
Decode(d, currentState) ==
  IF currentState = d.lastDigitalState THEN
    [runLength |-> d.runLength + 1, bitAccumulator |-> d.bitAccumulator,
     lastDigitalState |-> d.lastDigitalState, pendingShort |-> d.pendingShort,
     pulseLen |-> None, bits |-> <<>>, decoded |-> <<>>]
  ELSE
    LET pulseLen == d.runLength
        bits == IF IsLong(pulseLen) THEN <<LongBit(currentState)>>
                ELSE IF IsShort(pulseLen) /\ d.pendingShort # None
                     THEN PairBits(d.pendingShort[1], currentState)
                ELSE <<>>
        pending == IF IsLong(pulseLen) THEN None
                   ELSE IF IsShort(pulseLen)
                        THEN IF d.pendingShort # None THEN None
                             ELSE Some(currentState)
                   ELSE d.pendingShort
        pb == IF bits = <<>> THEN [acc |-> d.bitAccumulator, decoded |-> <<>>]
              ELSE ProcessBit(d.bitAccumulator, bits[1])
    IN [runLength |-> 0, bitAccumulator |-> pb.acc,
        lastDigitalState |-> currentState, pendingShort |-> pending,
        pulseLen |-> Some(pulseLen), bits |-> bits, decoded |-> pb.decoded]

----------------------------------------------------------------------------
\* The refs of one ScopeVisualizer as a record, and process() as a function
\* of it

InitialPipeline ==
  [baseline |-> None, digitalState |-> 0, rawHistory |-> <<>>,
   signalBuffer |-> <<>>, digitalBuffer |-> <<>>, runLength |-> 0,
   bitAccumulator |-> <<>>, lastDigitalState |-> 0, pendingShort |-> None]

Pipeline ==
  [baseline |-> baselineRef, digitalState |-> digitalStateRef,
   rawHistory |-> rawHistoryRef, signalBuffer |-> signalBufferRef,
   digitalBuffer |-> digitalBufferRef, runLength |-> runLengthRef,
   bitAccumulator |-> bitAccumulatorRef,
   lastDigitalState |-> lastDigitalStateRef,
   pendingShort |-> pendingShortRef]

\* steps 2 to 6 of process() on a ready frame whose sample is rawCurrent,
\* with the gain g and threshold t of the closure
ProcessFrame(p, rawCurrent, g, t) ==
  LET hist == SmoothHistory(p.rawHistory, rawCurrent)
      rawSmoothed == RawSmoothed(hist)
      baseline == Baseline(p.baseline, rawSmoothed)
      acSignal == AcSignal(rawSmoothed, baseline, g)
      currentState == Schmitt(p.digitalState, acSignal, t)
      d == Decode([runLength |-> p.runLength,
                   bitAccumulator |-> p.bitAccumulator,
                   lastDigitalState |-> p.lastDigitalState,
                   pendingShort |-> p.pendingShort], currentState)
  IN [baseline |-> Some(baseline), digitalState |-> currentState,
      rawHistory |-> hist,
      signalBuffer |-> PushBounded(p.signalBuffer, acSignal, BUFFER_SIZE),
      digitalBuffer |-> PushBounded(p.digitalBuffer, currentState, BUFFER_SIZE),
      runLength |-> d.runLength, bitAccumulator |-> d.bitAccumulator,
      lastDigitalState |-> d.lastDigitalState,
      pendingShort |-> d.pendingShort,
      pulseLen |-> d.pulseLen, bits |-> d.bits, decoded |-> d.decoded]

\* a reset that puts the last-state marker back to 0 and keeps the pending
\* pulse
ResetStateKeepsPending(p) ==
  [p EXCEPT !.baseline = None, !.rawHistory = <<>>, !.runLength = 0,
            !.bitAccumulator = <<>>, !.lastDigitalState = 0]

\* a reset that puts DigitalState back to 0 and leaves the last-state marker
ResetStateLevelOnly(p) ==
  [p EXCEPT !.baseline = None, !.rawHistory = <<>>, !.runLength = 0,
            !.bitAccumulator = <<>>, !.pendingShort = None,
            !.digitalState = 0]

\* Reset State of startStream
ResetState(p) ==
  [p EXCEPT !.baseline = None, !.rawHistory = <<>>, !.runLength = 0,
            !.bitAccumulator = <<>>, !.pendingShort = None]

StorePipelineInit ==
  /\ baselineRef = None
  /\ digitalStateRef = 0
  /\ rawHistoryRef = <<>>
  /\ signalBufferRef = <<>>
  /\ digitalBufferRef = <<>>
  /\ runLengthRef = 0
  /\ bitAccumulatorRef = <<>>
  /\ lastDigitalStateRef = 0
  /\ pendingShortRef = None

StorePipeline(q) ==
  /\ baselineRef' = q.baseline
  /\ digitalStateRef' = q.digitalState
  /\ rawHistoryRef' = q.rawHistory
  /\ signalBufferRef' = q.signalBuffer
  /\ digitalBufferRef' = q.digitalBuffer
  /\ runLengthRef' = q.runLength
  /\ bitAccumulatorRef' = q.bitAccumulator
  /\ lastDigitalStateRef' = q.lastDigitalState
  /\ pendingShortRef' = q.pendingShort

\* a consumer that puts the newest string first
AppendDecodedFirst(content, decoded) == decoded \o content

\* handleCharDecoded for each string of one tick: prev => prev + char
AppendDecoded(content, decoded) == content \o decoded

NoTick ==
  [ran |-> FALSE, pulseLen |-> None, bits |-> <<>>, decoded |-> <<>>,
   pending |-> None]

----------------------------------------------------------------------------
\* App: the console interceptor and the camera list

\* prev.slice(0, LOG_KEPT) is what addLog keeps of the old entries
LOG_KEPT == 49

Slice(s, from, to) == SubSeq(s, from + 1, IF Len(s) < to THEN Len(s) ELSE to)

\* an interceptor that keeps 50 old entries
AddLogKeepsFifty(prev, level, message) ==
  <<[level |-> level, message |-> message]>> \o Slice(prev, 0, LOG_KEPT + 1)

\* addLog: setLogs(prev => [entry, ...prev.slice(0, 49)]).  The id and the
\* timestamp of an entry are left out.
AddLog(prev, level, message) ==
  <<[level |-> level, message |-> message]>> \o Slice(prev, 0, LOG_KEPT)

\* the messages of the console calls of the program
FoundCameras == "Found cameras"
EnumerationError == "Error enumerating devices:"
CameraError == "Camera Error:"

\* activeDeviceId
ActiveDeviceId(devs, index) ==
  IF Len(devs) > 0 THEN devs[index + 1] ELSE Undefined

\* a switch that skips a camera
NextIndexSkips(prev, n) == (prev + 2) % n

\* handleSwitchCamera: prev => (prev + 1) % devices.length
NextIndex(prev, n) == (prev + 1) % n

----------------------------------------------------------------------------
\* requestAnimationFrame and cancelAnimationFrame

\* The id of a new request.  Ids only serve to be told apart, and every
\* request stores its id in animationFrameRef, so the model reuses the ids of
\* callbacks that ran or were cancelled.
FreshId(callbacks) ==
  CHOOSE i \in 1..(Cardinality(callbacks) + 1) : \A c \in callbacks : c.id # i

\* process as scheduled by an effect run with gain g and threshold t
Callback(id, g, t) == [id |-> id, gain |-> g, threshold |-> t]

CancelAnimationFrame(callbacks, id) == {c \in callbacks : c.id # id}

\* a cleanup that cancels nothing
CancelHeldNever(callbacks, held) == callbacks

\* if (animationFrameRef.current) cancelAnimationFrame(animationFrameRef.current)
CancelHeld(callbacks, held) ==
  IF held # 0 THEN CancelAnimationFrame(callbacks, held) ELSE callbacks

----------------------------------------------------------------------------
\* The state after the first mount: no device yet, so startStream returned at
\* once, the processing effect has requested its first frame, and getDevices
\* awaits the browser.

InitRefs ==
  /\ StorePipelineInit
  /\ animationFrameRef = 1
  /\ deviceId = Undefined
  /\ gain = 300
  /\ threshold = 15
  /\ terminalContent = <<>>
  /\ devices = <<>>
  /\ currentDeviceIndex = 0
  /\ logs = <<>>
  /\ enumerating = TRUE
  /\ rafCallbacks = {Callback(1, 300, 15)}
  /\ srcObject = None
  /\ streamRequests = <<>>
  /\ lastTick = NoTick

Init ==
  /\ InitRefs
  /\ tape = <<>>
  /\ bench = None

----------------------------------------------------------------------------
\* process(), run by the browser as the callback c, on a frame that is ready
\* or not.  A ready frame carries the sample rawCurrent.

\* a not-ready frame that ends the loop
ProcessNotReadyStops(c) ==
  /\ rafCallbacks' = rafCallbacks \ {c}
  /\ lastTick' = NoTick
  /\ UNCHANGED <<dspVars, animationFrameRef, appVars, hostVars, srcObject,
                 streamRequests>>

ProcessNotReady(c) ==
  LET rest == rafCallbacks \ {c}
      id == FreshId(rest)
  IN /\ rafCallbacks' = rest \cup {Callback(id, c.gain, c.threshold)}
     /\ animationFrameRef' = id
     /\ lastTick' = NoTick
     /\ UNCHANGED <<dspVars, appVars, hostVars, srcObject, streamRequests>>

ProcessReady(c, rawCurrent) ==
  LET rest == rafCallbacks \ {c}
      id == FreshId(rest)
      q == ProcessFrame(Pipeline, rawCurrent, c.gain, c.threshold)
  IN /\ StorePipeline(q)
     /\ terminalContent' = AppendDecoded(terminalContent, q.decoded)
     /\ lastTick' = [ran |-> TRUE, pulseLen |-> q.pulseLen, bits |-> q.bits,
                     decoded |-> q.decoded, pending |-> pendingShortRef]
     /\ rafCallbacks' = rest \cup {Callback(id, c.gain, c.threshold)}
     /\ animationFrameRef' = id
     /\ UNCHANGED <<deviceId, gain, threshold, hostVars, srcObject,
                    streamRequests>>

FrameNotReady == \E c \in rafCallbacks : ProcessNotReady(c)

\* video.readyState can be 4 only once a stream is attached
FrameReady ==
  /\ srcObject # None
  /\ Len(digitalBufferRef) < MaxTicks
  /\ \E c \in rafCallbacks, rawCurrent \in RawSet : ProcessReady(c, rawCurrent)

\* the browser runs one of the callbacks it holds
Frame == FrameNotReady \/ FrameReady

----------------------------------------------------------------------------
\* The processing-loop effect, deps [gain, threshold]: cleanup of the old
\* run, then the new run requests a frame for its own closure.

\* an effect that requests the frame for the closure of the previous render
RerunLoopEffectStale(g, t) ==
  LET rest == CancelHeld(rafCallbacks, animationFrameRef)
      id == FreshId(rest)
  IN /\ rafCallbacks' = rest \cup {Callback(id, gain, threshold)}
     /\ animationFrameRef' = id

RerunLoopEffect(g, t) ==
  LET rest == CancelHeld(rafCallbacks, animationFrameRef)
      id == FreshId(rest)
  IN /\ rafCallbacks' = rest \cup {Callback(id, g, t)}
     /\ animationFrameRef' = id

SetGain(g) ==
  /\ g # gain
  /\ gain' = g
  /\ RerunLoopEffect(g, threshold)
  /\ UNCHANGED <<dspVars, deviceId, threshold, terminalContent, hostVars,
                 srcObject, streamRequests, lastTick>>

SetThreshold(t) ==
  /\ t # threshold
  /\ threshold' = t
  /\ RerunLoopEffect(gain, t)
  /\ UNCHANGED <<dspVars, deviceId, gain, terminalContent, hostVars,
                 srcObject, streamRequests, lastTick>>

----------------------------------------------------------------------------
\* The camera effect, deps [deviceId]: cleanup of the old run, then
\* startStream up to its await.

StopTracks(src) == IF src = None THEN src ELSE Some([src[1] EXCEPT !.live = FALSE])

\* the effect runs for the new prop dev
CameraEffect(dev) ==
  /\ dev # deviceId
  /\ deviceId' = dev
  /\ rafCallbacks' = CancelHeld(rafCallbacks, animationFrameRef)
  /\ srcObject' = StopTracks(srcObject)
  /\ StorePipeline(ResetState(Pipeline))
  /\ streamRequests' = Append(streamRequests, dev)
  /\ UNCHANGED <<animationFrameRef, gain, threshold, terminalContent, lastTick>>

DeviceChange(dev) ==
  /\ Len(streamRequests) < MaxRequests
  /\ CameraEffect(dev)

\* getUserMedia settles for the i-th pending call: the stream is attached, or
\* the rejection goes to console.error, which App captures
RemoveAt(s, i) == SubSeq(s, 1, i - 1) \o SubSeq(s, i + 1, Len(s))

StreamSettled(i, granted) ==
  /\ i \in 1..Len(streamRequests)
  /\ streamRequests' = RemoveAt(streamRequests, i)
  /\ srcObject' = IF granted
                  THEN Some([device |-> streamRequests[i], live |-> TRUE])
                  ELSE srcObject
  /\ logs' = IF granted THEN logs ELSE AddLog(logs, "error", CameraError)
  /\ UNCHANGED <<dspVars, animationFrameRef, appVars, devices,
                 currentDeviceIndex, enumerating, rafCallbacks, lastTick>>

----------------------------------------------------------------------------
\* App: getDevices, run once after mount, and the switch button

\* enumerateDevices reports list, and back is the index of its back camera.
\* Both state updates land in one render, after which the camera effect runs
\* if the prop has become a device.
GetDevices(list, back) ==
  /\ enumerating
  /\ enumerating' = FALSE
  /\ devices' = list
  /\ currentDeviceIndex' = IF back # -1 THEN back ELSE currentDeviceIndex
  /\ logs' = AddLog(logs, "log", FoundCameras)
  /\ IF list # <<>>
     THEN DeviceChange(ActiveDeviceId(list, currentDeviceIndex'))
     ELSE UNCHANGED <<dspVars, animationFrameRef, appVars, envVars, lastTick>>

\* the browser answers with one of enumerations
Enumerated(enumerations) ==
  \E e \in enumerations : GetDevices(e.list, e.back)

\* getUserMedia or enumerateDevices rejects
GetDevicesFailed ==
  /\ enumerating
  /\ enumerating' = FALSE
  /\ logs' = AddLog(logs, "error", EnumerationError)
  /\ UNCHANGED <<dspVars, animationFrameRef, appVars, devices,
                 currentDeviceIndex, envVars, lastTick>>

\* the switch button, while fewer than maxPending getUserMedia calls are in
\* flight
SwitchCamera(maxPending) ==
  IF Len(devices) < 2
  THEN UNCHANGED <<dspVars, animationFrameRef, appVars, hostVars, envVars,
                   lastTick>>
  ELSE /\ Len(streamRequests) < maxPending
       /\ currentDeviceIndex' = NextIndex(currentDeviceIndex, Len(devices))
       /\ CameraEffect(ActiveDeviceId(devices, currentDeviceIndex'))
       /\ UNCHANGED <<devices, logs, enumerating>>

HandleSwitchCamera == SwitchCamera(MaxRequests)

\* handleClearLog
ClearLog ==
  /\ terminalContent' = <<>>
  /\ UNCHANGED <<dspVars, animationFrameRef, deviceId, gain, threshold,
                 hostVars, envVars, lastTick>>

\* In the behaviours of Spec the streams startStream asks for are granted.
\* LogSpec has the rejections.
Settled == \E i \in 1..MaxRequests : StreamSettled(i, TRUE)

\* The actions below leave the test bench alone; the specifications that
\* use the bench say what it does in each step.
Next ==
  \/ FrameNotReady /\ UNCHANGED benchVars
  \/ FrameReady /\ UNCHANGED benchVars
  \/ \E g \in GainSet : SetGain(g) /\ UNCHANGED benchVars
  \/ \E t \in ThresholdSet : SetThreshold(t) /\ UNCHANGED benchVars
  \/ Enumerated(Enumerations) /\ UNCHANGED benchVars
  \/ GetDevicesFailed /\ UNCHANGED benchVars
  \/ HandleSwitchCamera /\ UNCHANGED benchVars
  \/ Settled /\ UNCHANGED benchVars
  \/ ClearLog /\ UNCHANGED benchVars

Spec == Init /\ [][Next]_vars

----------------------------------------------------------------------------
\* The decoder alone: step 5 of process() on a DigitalState supplied by the
\* bench in place of the digitizer.  The consumer of onCharDecoded is left
\* out: lastTick.decoded holds the calls.

DecoderRefs ==
  [runLength |-> runLengthRef, bitAccumulator |-> bitAccumulatorRef,
   lastDigitalState |-> lastDigitalStateRef, pendingShort |-> pendingShortRef]

DecodeStep(currentState) ==
  LET d == Decode(DecoderRefs, currentState) IN
  /\ digitalStateRef' = currentState
  /\ runLengthRef' = d.runLength
  /\ bitAccumulatorRef' = d.bitAccumulator
  /\ lastDigitalStateRef' = d.lastDigitalState
  /\ pendingShortRef' = d.pendingShort
  /\ lastTick' = [ran |-> TRUE, pulseLen |-> d.pulseLen, bits |-> d.bits,
                  decoded |-> d.decoded, pending |-> pendingShortRef]
  /\ UNCHANGED <<baselineRef, rawHistoryRef, signalBufferRef, digitalBufferRef,
                 animationFrameRef, deviceId, gain, threshold, hostVars,
                 envVars>>

DecodeAny ==
  \E currentState \in {0, 1} :
    /\ currentState = lastDigitalStateRef => runLengthRef < MaxRun
    /\ DecodeStep(currentState)
    /\ UNCHANGED <<terminalContent, benchVars>>

DecoderSpec == Init /\ [][DecodeAny]_vars

----------------------------------------------------------------------------
\* The round trip: a message is Manchester-encoded into DigitalState ticks,
\* the decoder is stepped over them and every onCharDecoded call reaches
\* handleCharDecoded.

\* Frames per half-bit is approx 2.
HalfBitTicks == 2

Repeat(x, n) == [i \in 1..n |-> x]

\* bit 0 = low then high, bit 1 = high then low, half ticks per half-bit
EncodeBit(bit, half) ==
  IF bit = "0" THEN Repeat(0, half) \o Repeat(1, half)
  ELSE Repeat(1, half) \o Repeat(0, half)

RECURSIVE EncodeBits(_, _)
EncodeBits(bits, half) ==
  IF bits = <<>> THEN <<>>
  ELSE EncodeBit(Head(bits), half) \o EncodeBits(Tail(bits), half)

RECURSIVE Flatten(_)
Flatten(ss) == IF ss = <<>> THEN <<>> ELSE Head(ss) \o Flatten(Tail(ss))

\* The levels of a message.  After the last bit the line holds the opposite
\* level for one more half-bit, so that the last half-bit is a completed run.
TransmitAt(message, half) ==
  LET levels == EncodeBits(Flatten(message), half)
  IN levels \o Repeat(1 - Last(levels), half)

Transmit(message) == TransmitAt(message, HalfBitTicks)

LetterA == <<"0", "1", "0", "0", "0", "0", "0", "1">>
LetterU == <<"0", "1", "0", "1", "0", "1", "0", "1">>
ByteAlphabet == {LockWord, EndWord, LetterA, LetterU}

Messages == UNION {[1..n -> ByteAlphabet] : n \in 1..MaxBytes}

\* what the consumer is to receive for one byte
ExpectedEvent(byte) ==
  IF byte = LockWord THEN LockText
  ELSE IF byte = EndWord THEN EndText
  ELSE FromCharCode(ParseBinary(byte))

ExpectedEvents(message) == [i \in 1..Len(message) |-> ExpectedEvent(message[i])]

RoundTripInit ==
  /\ InitRefs
  /\ \E message \in Messages :
       /\ bench = Some(message)
       /\ tape = Transmit(message)

FeedLevel ==
  /\ tape # <<>>
  /\ DecodeStep(Head(tape))
  /\ terminalContent' = AppendDecoded(terminalContent, lastTick'.decoded)
  /\ tape' = Tail(tape)
  /\ UNCHANGED bench

RoundTripSpec == RoundTripInit /\ [][FeedLevel]_vars

----------------------------------------------------------------------------
\* Replay after a device switch.  The component runs as in Spec.  Each device
\* switch starts a second, freshly created pipeline and loads a tape of
\* samples; from then on every ready frame takes its sample from the tape and
\* both pipelines process it.  The bench keeps what each has decoded since.

\* the camera sees the lamp: one dark frame, then the lamp on or off
SampleOf(level) == IF level = 1 THEN 600 ELSE -600

Samples(levels) == <<0>> \o [i \in 1..Len(levels) |-> SampleOf(levels[i])]

ReplayHalfBits == {2, 3}

ReplayTapes ==
  {Samples(TransmitAt(<<byte>>, half)) :
     byte \in ByteAlphabet, half \in ReplayHalfBits}

SwitchAndFork ==
  /\ Len(digitalBufferRef) < MaxTicks
  /\ streamRequests = <<>>
  /\ Enumerated(Enumerations) \/ HandleSwitchCamera
  /\ deviceId' # deviceId
  /\ tape' \in ReplayTapes
  /\ bench' = Some([fresh |-> InitialPipeline, freshOut |-> <<>>,
                    resetOut |-> <<>>])

\* the pipeline part of a result of ProcessFrame
PipelineOf(q) ==
  [baseline |-> q.baseline, digitalState |-> q.digitalState,
   rawHistory |-> q.rawHistory, signalBuffer |-> q.signalBuffer,
   digitalBuffer |-> q.digitalBuffer, runLength |-> q.runLength,
   bitAccumulator |-> q.bitAccumulator,
   lastDigitalState |-> q.lastDigitalState, pendingShort |-> q.pendingShort]

ReplayFrame ==
  /\ bench # None
  /\ tape # <<>>
  /\ srcObject # None
  /\ \E c \in rafCallbacks :
       /\ ProcessReady(c, Head(tape))
       /\ LET f == ProcessFrame(bench[1].fresh, Head(tape), c.gain, c.threshold)
          IN bench' = Some([fresh |-> PipelineOf(f),
                            freshOut |-> bench[1].freshOut \o f.decoded,
                            resetOut |-> bench[1].resetOut \o lastTick'.decoded])
  /\ tape' = Tail(tape)

\* before the first switch there is no stream, so no frame is ready
IdleFrame ==
  /\ srcObject = None
  /\ FrameNotReady
  /\ UNCHANGED benchVars

\* the user moves a slider once the picture has frozen
RestartLoop ==
  /\ rafCallbacks = {}
  /\ \/ \E g \in GainSet : SetGain(g)
     \/ \E t \in ThresholdSet : SetThreshold(t)
  /\ UNCHANGED benchVars

\* the user has granted the camera
ReplaySettled ==
  /\ StreamSettled(1, TRUE)
  /\ UNCHANGED benchVars

ReplayNext ==
  \/ SwitchAndFork
  \/ ReplayFrame
  \/ IdleFrame
  \/ RestartLoop
  \/ ReplaySettled

ReplaySpec == Init /\ [][ReplayNext]_vars

----------------------------------------------------------------------------
\* The terminal.  The decoder is stepped over the levels of a message, every
\* onCharDecoded call reaches handleCharDecoded, and the user may clear the
\* log between any two ticks.  The bench keeps the strings handed to
\* onCharDecoded since the last clear.

TerminalMessages == [1..(MaxBytes + 1) -> ByteAlphabet]

TerminalInit ==
  /\ InitRefs
  /\ bench = Some(<<>>)
  /\ \E message \in TerminalMessages, half \in ReplayHalfBits :
       tape = TransmitAt(message, half)

TerminalTick ==
  /\ tape # <<>>
  /\ DecodeStep(Head(tape))
  /\ terminalContent' = AppendDecoded(terminalContent, lastTick'.decoded)
  /\ tape' = Tail(tape)
  /\ bench' = Some(bench[1] \o lastTick'.decoded)

TerminalClear ==
  /\ ClearLog
  /\ bench' = Some(<<>>)
  /\ UNCHANGED tape

TerminalNext == TerminalTick \/ TerminalClear

TerminalSpec == TerminalInit /\ [][TerminalNext]_vars

----------------------------------------------------------------------------
\* A component that has been running for about BUFFER_SIZE frames: the state
\* process() reaches from the mount state on a square wave of period 8
\* frames, at the initial gain and threshold.  From there the bench feeds
\* samples and records them on the tape.

WarmSample(i) == IF (i \div 4) % 2 = 0 THEN -600 ELSE 600

\* one more frame of the square wave, the i-th since the mount
WarmTick(w, i) ==
  LET q == ProcessFrame(w.pipeline, WarmSample(i), 300, 15)
  IN [pipeline |-> [f \in DOMAIN InitialPipeline |-> q[f]],
      content |-> AppendDecoded(w.content, q.decoded),
      last |-> [ran |-> TRUE, pulseLen |-> q.pulseLen, bits |-> q.bits,
                decoded |-> q.decoded, pending |-> w.pipeline.pendingShort]]

\* frames lo..hi, in two halves; the first half is bound as a value before
\* the second half starts, which keeps the evaluation shallow
RECURSIVE WarmedFrom(_, _, _)
WarmedFrom(w, lo, hi) ==
  IF lo > hi THEN w
  ELSE IF lo = hi THEN WarmTick(w, lo)
  ELSE LET mid == (lo + hi) \div 2
       IN CHOOSE r \in {WarmedFrom(v, mid + 1, hi) :
                          v \in {WarmedFrom(w, lo, mid)}} : TRUE

Warmed(n) ==
  WarmedFrom([pipeline |-> InitialPipeline, content |-> <<>>, last |-> NoTick],
             1, n)

BufferInit ==
  \E n \in (BUFFER_SIZE - 2)..BUFFER_SIZE :
    LET w == Warmed(n) IN
    /\ baselineRef = w.pipeline.baseline
    /\ digitalStateRef = w.pipeline.digitalState
    /\ rawHistoryRef = w.pipeline.rawHistory
    /\ signalBufferRef = w.pipeline.signalBuffer
    /\ digitalBufferRef = w.pipeline.digitalBuffer
    /\ runLengthRef = w.pipeline.runLength
    /\ bitAccumulatorRef = w.pipeline.bitAccumulator
    /\ lastDigitalStateRef = w.pipeline.lastDigitalState
    /\ pendingShortRef = w.pipeline.pendingShort
    /\ terminalContent = w.content
    /\ lastTick = w.last
    /\ animationFrameRef = 1
    /\ deviceId = "cam1"
    /\ gain = 300
    /\ threshold = 15
    /\ devices = <<"cam1">>
    /\ currentDeviceIndex = 0
    /\ logs = AddLog(<<>>, "log", FoundCameras)
    /\ enumerating = FALSE
    /\ rafCallbacks = {Callback(1, 300, 15)}
    /\ srcObject = Some([device |-> "cam1", live |-> TRUE])
    /\ streamRequests = <<>>
    /\ tape = <<>>
    /\ bench = None

BufferTick ==
  /\ srcObject # None
  /\ Len(tape) < MaxTicks
  /\ \E c \in rafCallbacks, rawCurrent \in RawSet :
       /\ ProcessReady(c, rawCurrent)
       /\ tape' = Append(tape, rawCurrent)
  /\ bench' = bench

BufferNext ==
  \/ BufferTick
  \/ \E g \in GainSet : SetGain(g) /\ UNCHANGED benchVars
  \/ \E t \in ThresholdSet : SetThreshold(t) /\ UNCHANGED benchVars

BufferSpec == BufferInit /\ [][BufferNext]_vars

----------------------------------------------------------------------------
\* The camera button pressed while getUserMedia calls are still in flight.
\* The browser may report up to three cameras and grants every call, in any
\* order.  The tape records the indexes selected since the enumeration.
\* The loop, which a switch has stopped, restarts when a slider moves.

CameraEnumerated ==
  /\ Enumerated(CameraEnumerations)
  /\ tape' = IF devices' = <<>> THEN <<>> ELSE <<currentDeviceIndex'>>
  /\ bench' = bench

CameraSwitched ==
  /\ Len(tape) <= MaxSwitches
  /\ SwitchCamera(MaxRequests + 1)
  /\ tape' = IF Len(devices) < 2 THEN tape ELSE Append(tape, currentDeviceIndex')
  /\ bench' = bench

CameraGranted ==
  /\ \E i \in 1..(MaxRequests + 1) : StreamSettled(i, TRUE)
  /\ UNCHANGED benchVars

\* frames are ready once every call has settled
CameraFrame ==
  /\ streamRequests = <<>>
  /\ FrameReady
  /\ UNCHANGED benchVars

CameraNext ==
  \/ CameraEnumerated
  \/ CameraSwitched
  \/ CameraGranted
  \/ CameraFrame
  \/ RestartLoop

CameraSpec == Init /\ [][CameraNext]_vars

----------------------------------------------------------------------------
\* The console interceptor with a log that is nearly full: the state after
\* about LOG_KEPT console calls since the mount.  The bench makes further
\* calls and records them on the tape.

ConsoleLevels == {"log", "error", "warn"}
ConsoleMessages == {FoundCameras, EnumerationError, CameraError}

\* the n-th call of the run that filled the log
CapturedLevel(n) == IF n % 3 = 0 THEN "log" ELSE IF n % 3 = 1 THEN "error" ELSE "warn"
CapturedMessage(n) == IF n % 2 = 0 THEN CameraError ELSE EnumerationError

\* calls lo..hi, in two halves; the first half is bound as a value before
\* the second half starts, which keeps the evaluation shallow
RECURSIVE CapturedFrom(_, _, _)
CapturedFrom(prev, lo, hi) ==
  IF lo > hi THEN prev
  ELSE IF lo = hi THEN AddLog(prev, CapturedLevel(lo), CapturedMessage(lo))
  ELSE LET mid == (lo + hi) \div 2
       IN CHOOSE r \in {CapturedFrom(v, mid + 1, hi) :
                          v \in {CapturedFrom(prev, lo, mid)}} : TRUE

Captured(n) == CapturedFrom(<<>>, 1, n)

LogInit ==
  /\ StorePipelineInit
  /\ animationFrameRef = 1
  /\ deviceId = Undefined
  /\ gain = 300
  /\ threshold = 15
  /\ terminalContent = <<>>
  /\ devices = <<>>
  /\ currentDeviceIndex = 0
  /\ logs \in {Captured(n) : n \in (LOG_KEPT - 1)..(LOG_KEPT + 1)}
  /\ enumerating = TRUE
  /\ rafCallbacks = {Callback(1, 300, 15)}
  /\ srcObject = None
  /\ streamRequests = <<>>
  /\ lastTick = NoTick
  /\ tape = <<>>
  /\ bench = None

\* console.log, console.error or console.warn as replaced by App
ConsoleCall(level, message) ==
  /\ logs' = AddLog(logs, level, message)
  /\ UNCHANGED <<dspVars, animationFrameRef, appVars, devices,
                 currentDeviceIndex, enumerating, envVars, lastTick>>

Entry(level, message) == [level |-> level, message |-> message]

\* a console call by other code on the page
LogCall ==
  /\ Len(tape) < MaxLogs
  /\ \E level \in ConsoleLevels, message \in ConsoleMessages :
       /\ ConsoleCall(level, message)
       /\ tape' = Append(tape, Entry(level, message))
  /\ bench' = bench

\* the console calls of the program itself: getDevices reports what it
\* found or that it failed, and startStream reports a rejected stream
LogEnumerated ==
  /\ Len(tape) < MaxLogs
  /\ Enumerated(Enumerations)
  /\ tape' = Append(tape, Entry("log", FoundCameras))
  /\ bench' = bench

LogEnumerationFailed ==
  /\ Len(tape) < MaxLogs
  /\ GetDevicesFailed
  /\ tape' = Append(tape, Entry("error", EnumerationError))
  /\ bench' = bench

LogRejected ==
  /\ Len(tape) < MaxLogs
  /\ \E i \in 1..MaxRequests : StreamSettled(i, FALSE)
  /\ tape' = Append(tape, Entry("error", CameraError))
  /\ bench' = bench

LogNext ==
  \/ LogCall
  \/ LogEnumerated
  \/ LogEnumerationFailed
  \/ LogRejected
  \/ HandleSwitchCamera /\ UNCHANGED benchVars
  \/ Settled /\ UNCHANGED benchVars

LogSpec == LogInit /\ [][LogNext]_vars

----------------------------------------------------------------------------
\* the browser runs every callback it holds, and getUserMedia settles
LiveSpec ==
  /\ Spec
  /\ WF_vars(Frame /\ UNCHANGED benchVars)
  /\ WF_vars(Settled /\ UNCHANGED benchVars)

----------------------------------------------------------------------------
\* Properties of the running component (Spec, LiveSpec)

InBand(acSignal, t) == acSignal <= Hundredths(t) /\ acSignal >= -Hundredths(t)

\* a step in which process() handled a ready frame
Ticked == Len(digitalBufferRef') = Len(digitalBufferRef) + 1

\* a step in which the deviceId prop changed to a defined device
DeviceChanged == deviceId' # deviceId /\ deviceId' \in Devices

\* C5: when the capture source is replaced, every piece of decoder state is
\* back at its initial value: baseline null, no pending pulse, empty
\* accumulator, run length 0, last-state marker and DigitalState 0.
C5_ResetRestoresInitialState ==
  [][DeviceChanged =>
       /\ baselineRef' = InitialPipeline.baseline
       /\ pendingShortRef' = InitialPipeline.pendingShort
       /\ bitAccumulatorRef' = InitialPipeline.bitAccumulator
       /\ runLengthRef' = InitialPipeline.runLength
       /\ lastDigitalStateRef' = InitialPipeline.lastDigitalState
       /\ digitalStateRef' = InitialPipeline.digitalState]_vars

\* C7: the frame loop is never left unscheduled for good: at any time a
\* callback of the loop is pending again later.
C7_LoopStaysScheduled == []<>(rafCallbacks # {})

\* C8: on each tick DigitalState becomes 1 iff the amplified signal is above
\* the threshold, 0 iff it is below minus the threshold, and keeps its value
\* inside the band.
C8_Hysteresis ==
  [][Ticked =>
       LET acSignal == Last(signalBufferRef') IN
       /\ acSignal > Hundredths(threshold) => digitalStateRef' = 1
       /\ acSignal < -Hundredths(threshold) => digitalStateRef' = 0
       /\ InBand(acSignal, threshold) => digitalStateRef' = digitalStateRef]_vars

\* a tick inside the band has kept DigitalState at 1
C8_Witness ==
  /\ lastTick.ran
  /\ digitalStateRef = 1
  /\ InBand(Last(signalBufferRef), threshold)

\* C16: a frame that is not ready changes nothing of the pipeline, neither
\* smoothing history, baseline, DigitalState, run length, last state, pending
\* pulse, accumulator nor the two buffers, emits nothing, and leaves the loop
\* scheduled.
C16_NotReadySkips ==
  [][FrameNotReady =>
       /\ UNCHANGED dspVars
       /\ terminalContent' = terminalContent
       /\ lastTick'.decoded = <<>>
       /\ \E c \in rafCallbacks' : c.id = animationFrameRef']_vars

\* a frame was not ready after frames had been processed
C16_Witness ==
  /\ ~lastTick.ran
  /\ digitalBufferRef # <<>>
  /\ rafCallbacks # {}

\* a step in which the gain or threshold prop changed
ConfigChanged == gain' # gain \/ threshold' # threshold

\* C19: a change of gain or threshold leaves baseline, smoothing history,
\* DigitalState, run length, last state, pending pulse and accumulator as
\* they are, and the next tick amplifies and digitizes with the new values.
C19_ConfigChangeKeepsState ==
  [][/\ ConfigChanged =>
          /\ UNCHANGED <<baselineRef, rawHistoryRef, digitalStateRef,
                         runLengthRef, lastDigitalStateRef, pendingShortRef,
                         bitAccumulatorRef>>
          /\ \A c \in rafCallbacks' :
               c.gain = gain' /\ c.threshold = threshold'
     /\ Ticked =>
          LET acSignal == AcSignal(RawSmoothed(rawHistoryRef'),
                                   baselineRef'[1], gain)
          IN /\ Last(signalBufferRef') = acSignal
             /\ digitalStateRef' = Schmitt(digitalStateRef, acSignal,
                                           threshold)]_vars

\* a tick has amplified a signal with the gain the slider was moved to
C19_Witness ==
  /\ lastTick.ran
  /\ gain = 1000
  /\ baselineRef # None
  /\ Last(signalBufferRef) # 0
  /\ Last(signalBufferRef)
       = AcSignal(RawSmoothed(rawHistoryRef), baselineRef[1], 1000)

\* C20: the first tick after start or after a reset sets the baseline to
\* its smoothed sample, so the AC component is 0 and DigitalState keeps its
\* value.
C20_FirstTickBaseline ==
  [][(Ticked /\ baselineRef = None) =>
       /\ baselineRef' = Some(RawSmoothed(rawHistoryRef'))
       /\ Last(signalBufferRef') = 0
       /\ digitalStateRef' = digitalStateRef]_vars

\* the first tick after a reset, at gain 1000, has kept DigitalState at 1
C20_Witness ==
  /\ lastTick.ran
  /\ Len(rawHistoryRef) = 1
  /\ Len(digitalBufferRef) > 1
  /\ gain = 1000
  /\ digitalStateRef = 1
  /\ baselineRef = Some(rawHistoryRef[1])
  /\ Last(signalBufferRef) = 0

----------------------------------------------------------------------------
\* Properties of the terminal (TerminalSpec)

\* C17: the terminal content is always the concatenation, in emission
\* order, of the strings emitted since the last clear, and a step either
\* clears it or extends it by at most one string at its end.
C17_TerminalInOrder ==
  /\ [](terminalContent = bench[1])
  /\ [][\/ terminalContent' = <<>>
        \/ /\ Len(terminalContent') <= Len(terminalContent) + 1
           /\ SubSeq(terminalContent', 1, Len(terminalContent))
                = terminalContent]_vars

\* two different strings have arrived
C17_Witness ==
  /\ Len(terminalContent) = 2
  /\ terminalContent[1] # terminalContent[2]

----------------------------------------------------------------------------
\* Properties of the decoder (DecoderSpec, RoundTripSpec)

LevelBit(level) == IF level = 0 THEN "0" ELSE "1"

\* the accumulator after one more bit
Accumulated(acc, bit) == IF Len(acc) = 7 THEN <<>> ELSE Append(acc, bit)

\* C1: a message encoded with 2 ticks per half-bit and decoded comes out as
\* the bytes that went in, the lock and end words as their markers.
C1_RoundTrip == tape = <<>> => terminalContent = ExpectedEvents(bench[1])

\* C2: a completed long run hands processBit exactly one bit, the level the
\* run was held at (low 0, high 1); after the tick that level is the
\* opposite of DigitalState.
C2_LongRunBit ==
  (lastTick.pulseLen # None /\ lastTick.pulseLen[1] >= 4)
    => lastTick.bits = <<LevelBit(1 - digitalStateRef)>>

\* C4: a completed short run that finds a pulse of the opposite level
\* pending appends exactly one bit, 0 for pending low and current high, 1
\* for pending high and current low, and empties the pending slot.
C4_ShortPairResolves ==
  [][(/\ digitalStateRef' # lastDigitalStateRef
      /\ runLengthRef <= 3
      /\ pendingShortRef # None
      /\ pendingShortRef[1] # digitalStateRef')
       => /\ lastTick'.bits = <<LevelBit(pendingShortRef[1])>>
          /\ bitAccumulatorRef'
               = Accumulated(bitAccumulatorRef, LevelBit(pendingShortRef[1]))
          /\ pendingShortRef' = None]_vars

\* a short run has completed a pair
C4_Witness ==
  /\ lastTick.pulseLen # None
  /\ lastTick.pulseLen[1] <= 3
  /\ lastTick.bits # <<>>
  /\ pendingShortRef = None

\* C9: the bit that completes 11110000 emits exactly the lock marker, no
\* character, and leaves the accumulator empty.
C9_LockMarker ==
  [][(lastTick'.bits # <<>>
      /\ Append(bitAccumulatorRef, lastTick'.bits[1]) = LockWord)
       => /\ lastTick'.decoded = <<LockText>>
          /\ bitAccumulatorRef' = <<>>]_vars

C9_Witness == lastTick.decoded = <<LockText>> /\ bitAccumulatorRef = <<>>

\* C10: the bit that completes 00001111 emits exactly the end marker, no
\* character, and leaves the accumulator empty.
C10_EndMarker ==
  [][(lastTick'.bits # <<>>
      /\ Append(bitAccumulatorRef, lastTick'.bits[1]) = EndWord)
       => /\ lastTick'.decoded = <<EndText>>
          /\ bitAccumulatorRef' = <<>>]_vars

C10_Witness == lastTick.decoded = <<EndText>> /\ bitAccumulatorRef = <<>>

\* the 8-bit unit the step completes, if it completes one
UnitCompleted ==
  IF lastTick'.bits # <<>> /\ Len(bitAccumulatorRef) = 7
  THEN Some(Append(bitAccumulatorRef, lastTick'.bits[1]))
  ELSE None

\* C11: a completed 8-bit unit that is neither reserved word, of value n,
\* emits the character of code n iff 32 <= n <= 126 and nothing otherwise;
\* either way the accumulator is empty for the next unit.
C11_PrintableRange ==
  [][(UnitCompleted # None /\ UnitCompleted[1] \notin {LockWord, EndWord})
       => LET n == ParseBinary(UnitCompleted[1]) IN
          /\ (n >= 32 /\ n <= 126) => lastTick'.decoded = <<FromCharCode(n)>>
          /\ (n < 32 \/ n > 126) => lastTick'.decoded = <<>>
          /\ bitAccumulatorRef' = <<>>]_vars

\* the unit 01111110 (126) has come out as a character
C11_Witness == lastTick.decoded = <<"~">> /\ bitAccumulatorRef = <<>>

\* C12: the accumulator never holds more than 8 symbols, and after a tick
\* in which it reached 8 symbols it is empty.
C12_AccumulatorBound ==
  /\ Len(bitAccumulatorRef) <= 8
  /\ [][/\ Len(bitAccumulatorRef') <= 8
        /\ Len(bitAccumulatorRef) + Len(lastTick'.bits) >= 8
             => bitAccumulatorRef' = <<>>]_vars

\* an 8th bit has arrived, the unit was discarded and the accumulator emptied
C12_Witness ==
  /\ lastTick.bits # <<>>
  /\ lastTick.decoded = <<>>
  /\ bitAccumulatorRef = <<>>

\* C13: a tick that leaves DigitalState unchanged increments the run-length
\* counter by 1; a tick that flips it sets the counter to 1 and the
\* last-state marker to the new state.
C13_RunLengthUpdate ==
  [][lastTick'.ran =>
       IF digitalStateRef' = digitalStateRef
       THEN runLengthRef' = runLengthRef + 1
       ELSE runLengthRef' = 1 /\ lastDigitalStateRef' = digitalStateRef']_vars

\* C14: a completed short run that finds no pulse pending, or one of the
\* current level, stores the current level as pending, appends no bit and
\* emits nothing.
C14_ShortRunStored ==
  [][(/\ digitalStateRef' # lastDigitalStateRef
      /\ runLengthRef <= 3
      /\ (pendingShortRef = None \/ pendingShortRef[1] = digitalStateRef'))
       => /\ pendingShortRef' = Some(digitalStateRef')
          /\ lastTick'.bits = <<>>
          /\ bitAccumulatorRef' = bitAccumulatorRef
          /\ lastTick'.decoded = <<>>]_vars

\* a short run has completed with nothing pending and its level is stored
C14_Witness ==
  /\ lastTick.pulseLen # None
  /\ lastTick.pulseLen[1] <= 3
  /\ lastTick.pending = None
  /\ pendingShortRef = Some(digitalStateRef)
  /\ lastTick.bits = <<>>

\* C15: a completed long run leaves the pending slot empty and appends one
\* bit only, whether or not a short pulse was pending.
C15_LongRunClearsPending ==
  [][(digitalStateRef' # lastDigitalStateRef /\ runLengthRef >= 4)
       => /\ pendingShortRef' = None
          /\ Len(lastTick'.bits) = 1
          /\ bitAccumulatorRef'
               = Accumulated(bitAccumulatorRef, lastTick'.bits[1])]_vars

\* a long run has completed while a short pulse was pending
C15_Witness ==
  /\ lastTick.pulseLen # None
  /\ lastTick.pulseLen[1] >= 4
  /\ lastTick.pending # None
  /\ pendingShortRef = None
  /\ Len(lastTick.bits) = 1

----------------------------------------------------------------------------
\* Properties of the replay (ReplaySpec)

\* the ticks DigitalState was held at the level it had before the last tick,
\* read off the digital buffer
RECURSIVE TrailingRun(_, _)
TrailingRun(buf, level) ==
  IF buf = <<>> \/ Last(buf) # level THEN 0
  ELSE 1 + TrailingRun(SubSeq(buf, 1, Len(buf) - 1), level)

HeldTicks ==
  LET before == SubSeq(digitalBufferRef, 1, Len(digitalBufferRef) - 1)
  IN TrailingRun(before, 1 - Last(digitalBufferRef))

\* C3: a completed run that was held for k ticks is classified long iff
\* k >= 4 and short iff k <= 3.
C3_RunClassification ==
  (lastTick.pulseLen # None /\ Len(digitalBufferRef) < BUFFER_SIZE)
    => /\ IsLong(lastTick.pulseLen[1]) <=> HeldTicks >= 4
       /\ IsShort(lastTick.pulseLen[1]) <=> HeldTicks <= 3

\* one step of the baseline filter from prev on the sample s: the sample
\* itself at first, then 98 parts of prev and 2 parts of s
OneFilterStep(prev, s) ==
  IF prev = None THEN s ELSE RoundDiv(98 * prev[1] + 2 * s, 100)

\* C18: a processed tick updates the baseline once, from its own smoothed
\* sample, evaluates the digitizer once and handles at most one transition:
\* at most one bit is appended and at most one string is emitted.
C18_OneUpdatePerTick ==
  [][Ticked =>
       /\ baselineRef'
            = Some(OneFilterStep(baselineRef, RawSmoothed(rawHistoryRef')))
       /\ Len(signalBufferRef') = Len(signalBufferRef) + 1
       /\ digitalStateRef' = Last(digitalBufferRef')
       /\ runLengthRef' = runLengthRef + 1 \/ lastTick'.pulseLen # None
       /\ Len(lastTick'.bits) <= 1
       /\ Len(bitAccumulatorRef') <= Len(bitAccumulatorRef) + 1
       /\ Len(lastTick'.decoded) <= 1
       /\ Len(terminalContent') <= Len(terminalContent) + 1]_vars

\* a tick has handled a transition and emitted one string
C18_Witness ==
  /\ lastTick.ran
  /\ lastTick.pulseLen # None
  /\ Len(lastTick.bits) = 1
  /\ Len(lastTick.decoded) = 1
  /\ terminalContent # <<>>

\* C6: after a device switch the component decodes from a sample sequence
\* what a freshly created pipeline decodes from it.
C6_ResetIdempotent == bench # None => bench[1].resetOut = bench[1].freshOut

----------------------------------------------------------------------------
\* Properties of the analog front end (Spec)

\* every sample fed since the last reset had the value v: the reset left no
\* baseline, or the filter and the smoother hold nothing but v
ConstantSoFar(v) ==
  \/ baselineRef = None
  \/ /\ baselineRef = Some(v)
     /\ \A i \in 1..Len(rawHistoryRef) : rawHistoryRef[i] = v

KeepLast(s, n) == SubSeq(s, IF Len(s) > n THEN Len(s) - n + 1 ELSE 1, Len(s))

MeanOf(s) == RoundDiv(SumSeq(s), Len(s))

\* C22: the smoother holds at most the 3 most recent raw samples since the
\* last reset, and each tick emits the arithmetic mean of exactly the samples
\* it holds: the filter and the amplified signal of the tick are computed
\* from that mean.
C22_SmootherWindow ==
  /\ [](Len(rawHistoryRef) <= 3)
  /\ [][Ticked =>
         /\ \E x \in RawSet :
              rawHistoryRef' = KeepLast(Append(rawHistoryRef, x), 3)
         /\ baselineRef' = Some(OneFilterStep(baselineRef, MeanOf(rawHistoryRef')))
         /\ Last(signalBufferRef')
              = (MeanOf(rawHistoryRef') - baselineRef'[1]) * gain]_vars

\* a fourth tick without a reset: the oldest sample has been dropped
C22_Witness ==
  /\ lastTick.ran
  /\ Len(digitalBufferRef) = 4
  /\ Len(rawHistoryRef) = 3
  /\ rawHistoryRef[1] # rawHistoryRef[3]
  /\ baselineRef # Some(MeanOf(rawHistoryRef))

----------------------------------------------------------------------------
\* Properties of the diagnostic buffers (BufferSpec)

\* buf after one push: the old contents in order, less the oldest entry if
\* the buffer was full, then the new entry
PushedOnto(old, buf, x) ==
  /\ Len(buf) = (IF Len(old) < BUFFER_SIZE THEN Len(old) + 1 ELSE BUFFER_SIZE)
  /\ Last(buf) = x
  /\ \A i \in 1..(Len(buf) - 1) : buf[i] = old[i + Len(old) + 1 - Len(buf)]

\* the refs with both buffers emptied
WithoutBuffers ==
  [Pipeline EXCEPT !.signalBuffer = <<>>, !.digitalBuffer = <<>>]

\* C23: the two diagnostic buffers always have the same length, at most 300;
\* each tick appends the pair (amplified signal, DigitalState) of that tick
\* and drops the oldest pair when the buffers are full; and the tick leaves
\* the decoder state and emits the events it would with the buffers emptied.
C23_DiagnosticBuffers ==
  /\ [](/\ Len(signalBufferRef) = Len(digitalBufferRef)
        /\ Len(digitalBufferRef) <= BUFFER_SIZE)
  /\ [][tape' # tape =>
         LET q == ProcessFrame(WithoutBuffers, Last(tape'), gain, threshold) IN
         /\ PushedOnto(digitalBufferRef, digitalBufferRef', digitalStateRef')
         /\ PushedOnto(signalBufferRef, signalBufferRef',
                       (MeanOf(rawHistoryRef') - baselineRef'[1]) * gain)
         /\ <<baselineRef', digitalStateRef', rawHistoryRef', runLengthRef',
              bitAccumulatorRef', lastDigitalStateRef', pendingShortRef'>>
              = <<q.baseline, q.digitalState, q.rawHistory, q.runLength,
                  q.bitAccumulator, q.lastDigitalState, q.pendingShort>>
         /\ lastTick'.decoded = q.decoded]_vars

\* full buffers whose oldest pair differs from the next one, so that the
\* pair dropped is told apart, after a tick that flipped DigitalState
C23_Witness ==
  /\ Len(tape) > 2
  /\ Len(digitalBufferRef) = BUFFER_SIZE
  /\ digitalBufferRef[1] # digitalBufferRef[2]
  /\ signalBufferRef[1] # signalBufferRef[2]
  /\ lastTick.pulseLen # None

----------------------------------------------------------------------------
\* Properties of the decoder markers (ReplaySpec, Spec)

\* C24: between ticks a non-empty pending slot holds the level of the
\* last-state marker, also after a source-change reset; so when a short run
\* completes while a pulse is pending, the pending level is the opposite of
\* the new level and the tick produces exactly one bit.
C24_PendingIsLastLevel ==
  /\ [](pendingShortRef # None => pendingShortRef[1] = lastDigitalStateRef)
  /\ [][(/\ Ticked
          /\ lastTick'.pulseLen # None
          /\ IsShort(lastTick'.pulseLen[1])
          /\ pendingShortRef # None)
         => /\ pendingShortRef[1] # digitalStateRef'
            /\ Len(lastTick'.bits) = 1
            /\ pendingShortRef' = None]_vars

\* a short run paired with a pending pulse, after a device switch that came
\* when frames had already been processed
C24_Witness ==
  /\ bench # None
  /\ Len(digitalBufferRef) > Len(bench[1].fresh.digitalBuffer)
  /\ lastTick.pending # None
  /\ lastTick.pulseLen # None
  /\ IsShort(lastTick.pulseLen[1])
  /\ Len(lastTick.bits) = 1

\* C25: after every processed tick, source-change reset and gain or
\* threshold change the last-state marker equals DigitalState, so a tick
\* detects a transition exactly when its digitizer changed DigitalState.
C25_MarkerIsDigitalState ==
  /\ [](lastDigitalStateRef = digitalStateRef)
  /\ [][Ticked =>
         (lastTick'.pulseLen # None <=> digitalStateRef' # digitalStateRef)]_vars

\* a transition detected at the raised gain on the second device
C25_Witness ==
  /\ lastTick.pulseLen # None
  /\ digitalStateRef = 0
  /\ lastDigitalStateRef = 0
  /\ gain = 1000
  /\ srcObject = Some([device |-> "cam2", live |-> TRUE])
  /\ baselineRef # None

----------------------------------------------------------------------------
\* Properties of the unit boundaries (TerminalSpec)

\* C26: a tick emits an event only when it appends the 8th bit since the
\* accumulator was last cleared, and then clears the accumulator; a tick
\* that appends an earlier bit emits nothing and keeps the bits it holds, so
\* a marker pattern that straddles a boundary is not recognised and does not
\* realign the accumulator.
C26_EventsOnEighthBit ==
  [][tape' # tape =>
       /\ lastTick'.decoded # <<>>
            => /\ Len(bitAccumulatorRef) = 7
               /\ Len(lastTick'.bits) = 1
               /\ bitAccumulatorRef' = <<>>
       /\ Len(bitAccumulatorRef) < 7
            => /\ lastTick'.decoded = <<>>
               /\ bitAccumulatorRef' = bitAccumulatorRef \o lastTick'.bits]_vars

\* the bits 1111 that ended an end-marker are followed by 0000: the last 8
\* bits are those of the lock-marker, across a boundary, and nothing is
\* emitted
C26_Witness ==
  /\ terminalContent # <<>>
  /\ Last(terminalContent) = EndText
  /\ bitAccumulatorRef = <<"0", "0", "0", "0">>
  /\ lastTick.bits = <<"0">>
  /\ lastTick.decoded = <<>>

----------------------------------------------------------------------------
\* Properties of the frame loop (Spec)

\* C27: under every interleaving of frame callbacks, gain and threshold
\* changes and device changes the browser holds at most one callback of the
\* processing loop, and it is the one whose id animationFrameRef holds, with
\* the current gain and threshold: no frame is processed by two loops.
C27_SingleCallback ==
  /\ Cardinality(rafCallbacks) <= 1
  /\ \A c \in rafCallbacks : c = Callback(animationFrameRef, gain, threshold)

\* the loop restarted with both sliders moved after a switch to the second
\* device, and has processed a frame since
C27_Witness ==
  /\ rafCallbacks = {Callback(animationFrameRef, 1000, 50)}
  /\ deviceId = "cam2"
  /\ srcObject = Some([device |-> "cam2", live |-> TRUE])
  /\ lastTick.ran
  /\ rawHistoryRef # <<>>

----------------------------------------------------------------------------
\* Properties of the camera selection (CameraSpec)

\* C28: once every getUserMedia call has settled, the stream attached to the
\* video element is the live stream of the device selected last, so the
\* ticks that follow sample that device.
C28_LatestDeviceAttached ==
  (streamRequests = <<>> /\ deviceId # Undefined)
    => srcObject = Some([device |-> deviceId, live |-> TRUE])

\* C29: with a non-empty device list the current index is within the list
\* and the prop is the device at it; with fewer than 2 devices no step moves
\* the index; otherwise a step that moves it advances it by one modulo the
\* number of devices, so that as many switches as there are devices select
\* the starting device again.
C29_IndexStaysValid ==
  /\ [](devices # <<>> => currentDeviceIndex \in 0..(Len(devices) - 1))
  /\ [](deviceId = IF devices = <<>> THEN Undefined
                   ELSE devices[currentDeviceIndex + 1])
  /\ [][devices' = devices =>
         IF Len(devices) < 2
         THEN currentDeviceIndex' = currentDeviceIndex /\ deviceId' = deviceId
         ELSE \/ currentDeviceIndex' = currentDeviceIndex
              \/ currentDeviceIndex' = (currentDeviceIndex + 1) % Len(devices)]_vars
  /\ [](\A i \in 1..Len(tape) :
          i + Len(devices) <= Len(tape) => tape[i + Len(devices)] = tape[i])

\* three cameras, the back camera in the middle: three switches have gone
\* through the last and the first and are back at the middle one
C29_Witness ==
  /\ Len(devices) = 3
  /\ tape = <<1, 2, 0, 1>>
  /\ currentDeviceIndex = 1
  /\ deviceId = "cam2"

----------------------------------------------------------------------------
\* Properties of the captured console log (LogSpec)

\* C30: the log never holds more than 50 entries; a console call puts its
\* entry first and keeps the old entries behind it in their order, when the
\* log was full the entry that goes is the last, the oldest one, and no
\* other step changes the log.
C30_LogBounded ==
  /\ [](Len(logs) <= 50)
  /\ [][IF tape' # tape
        THEN /\ logs'[1] = Last(tape')
             /\ Len(logs') = (IF Len(logs) < 50 THEN Len(logs) + 1 ELSE 50)
             /\ \A i \in 2..Len(logs') : logs'[i] = logs[i - 1]
        ELSE logs' = logs]_vars

\* two calls on a full log, getDevices reporting its cameras and then
\* startStream a rejected stream: both are at the front, newest first, and
\* the two oldest entries have gone
C30_Witness ==
  /\ tape = <<Entry("log", FoundCameras), Entry("error", CameraError)>>
  /\ Len(logs) = 50
  /\ logs[1] = tape[2]
  /\ logs[2] = tape[1]
  /\ logs[3] = Captured(50)[1]
  /\ logs[50] = Captured(50)[48]
  /\ logs[50] # Captured(50)[50]

====
